---- MODULE Spec2Model ----
(***************************************************************************)
(* Model of scripts/release.py: the release automation of Adaptive         *)
(* Pipeline.  One run of main(): argument parsing, construction of the     *)
(* ReleaseAutomation object (input validation), the phase dispatch, the    *)
(* nine steps and every call of _run_command they make, and sys.exit.      *)
(* The external tools (git, cargo, sed, zip, gh) are the environment:      *)
(* each executed command draws its outcome (exit status, captured output,  *)
(* or an exception of subprocess.run) from a small set.                    *)
(***************************************************************************)
EXTENDS Integers, Sequences, FiniteSets, TLC

VARIABLES
    args,           \* argparse namespace: version, repopath, prep, build, publish, all, dry_run
    pc,             \* position of main / run_all
    step,           \* step function being executed (0: none)
    idx,            \* next _run_command call inside the step (0: the step has returned)
    results,        \* return value of each step function
    phase_result,   \* return value of each phase function
    success,        \* main's local variable
    exit_code,      \* status passed to sys.exit (-1: still running)
    cmds,           \* history: commands handed to subprocess.run, with outcome
    dry_printed,    \* history: [DRY RUN] descriptions printed
    invoked,        \* history: step functions called, in call order
    phases,         \* history: phase functions called, in call order
    zips,           \* archive paths present on disk
    missing_zips,   \* list printed by the verification of step 8
    verified,       \* the verification of step 8 has been performed
    files,          \* content of the files step 2 rewrites: file name -> lines
    today,          \* the calendar day, as datetime.now() formats it
    date_str,       \* local variable of step 2
    runs            \* history: date and resulting files of each completed run of step 2

vars == <<args, pc, step, idx, results, phase_result, success, exit_code,
          cmds, dry_printed, invoked, phases, zips, missing_zips, verified,
          files, today, date_str, runs>>

----------------------------------------------------------------------------
(* Bounds of the explored inputs *)

\* longest version string explored
MaxVersionLen == 5

\* characters a version string is built from: a digit, a letter, the separator
VersionChars == {"1", "a", "."}

\* repository paths given on the command line
RepoPaths == {"/nowhere", "/plain", "/repo"}

\* directories that exist on disk, and those holding a .git entry
ExistingPaths == {"/plain", "/repo"}

GitPaths == {"/repo"}

----------------------------------------------------------------------------
(* Static tables of ReleaseAutomation *)

PLATFORMS == << "aarch64-apple-darwin",
                "aarch64-unknown-linux-gnu",
                "x86_64-apple-darwin",
                "x86_64-pc-windows-gnu",
                "x86_64-unknown-linux-gnu" >>

PLATFORM_EXTENSIONS(platform) ==
    IF platform = "x86_64-pc-windows-gnu" THEN ".exe" ELSE ""

_platform_to_name(platform) ==
    CASE platform = "aarch64-apple-darwin"      -> "macos-aarch64"
      [] platform = "aarch64-unknown-linux-gnu" -> "linux-aarch64"
      [] platform = "x86_64-apple-darwin"       -> "macos-x86_64"
      [] platform = "x86_64-pc-windows-gnu"     -> "windows-x86_64"
      [] platform = "x86_64-unknown-linux-gnu"  -> "linux-x86_64"
      [] OTHER                                  -> platform

Range(s) == {s[i] : i \in 1..Len(s)}

----------------------------------------------------------------------------
(* Strings: a version is a sequence of one-character strings *)

RECURSIVE StrOf(_)
StrOf(cs) == IF cs = <<>> THEN "" ELSE cs[1] \o StrOf(Tail(cs))

\* str.split("."): the segments between the separators, empty ones included
RECURSIVE split(_)
split(cs) ==
    IF \A i \in 1..Len(cs) : cs[i] # "."
    THEN <<cs>>
    ELSE LET k == CHOOSE i \in 1..Len(cs) :
                     cs[i] = "." /\ \A j \in 1..(i-1) : cs[j] # "."
         IN  <<SubSeq(cs, 1, k-1)>> \o split(SubSeq(cs, k+1, Len(cs)))

\* all(c.isdigit() for c in s): true of the empty string
isdigit_allows_empty(cs) == \A i \in 1..Len(cs) : cs[i] \in {"0","1","2","3","4","5","6","7","8","9"}

\* str.isdigit(): non-empty and every character a digit
isdigit(cs) == cs # <<>> /\ \A i \in 1..Len(cs) : cs[i] \in {"0","1","2","3","4","5","6","7","8","9"}

\* str.strip(): leading and trailing whitespace removed
IsSpace(c) == c \in {" ", "\n", "\t"}

RECURSIVE lstrip(_)
lstrip(cs) == IF cs # <<>> /\ IsSpace(cs[1]) THEN lstrip(Tail(cs)) ELSE cs

RECURSIVE rstrip(_)
rstrip(cs) == IF cs # <<>> /\ IsSpace(cs[Len(cs)])
              THEN rstrip(SubSeq(cs, 1, Len(cs)-1)) ELSE cs

\* the output tested as it is, without strip()
strip_omitted(cs) == cs

strip(cs) == rstrip(lstrip(cs))

----------------------------------------------------------------------------
(* Input validation, called by __init__ *)

_validate_version(version) ==
    LET parts == split(version)
    IN  Len(parts) = 3 /\ \A i \in 1..Len(parts) : isdigit(parts[i])

\* the path check without the test of the .git entry
_validate_repo_path_exists_only(repo_path) ==
    repo_path \in ExistingPaths

_validate_repo_path(repo_path) ==
    repo_path \in ExistingPaths /\ repo_path \in GitPaths

----------------------------------------------------------------------------
(* Paths *)

_get_binary_path(platform) ==
    args.repopath \o "/target/" \o platform \o "/release/"
        \o "adaptive_pipeline-v" \o StrOf(args.version) \o "-"
        \o _platform_to_name(platform) \o PLATFORM_EXTENSIONS(platform)

\* the archive named after the platform triple instead of its display name
_get_zip_path_by_triple(platform) ==
    args.repopath \o "/target/" \o platform \o "/release/"
        \o "adaptive_pipeline-v" \o StrOf(args.version) \o "-"
        \o platform \o ".zip"

_get_zip_path(platform) ==
    args.repopath \o "/target/" \o platform \o "/release/"
        \o "adaptive_pipeline-v" \o StrOf(args.version) \o "-"
        \o _platform_to_name(platform) \o ".zip"

zip_name(platform) ==
    "adaptive_pipeline-v" \o StrOf(args.version) \o "-"
        \o _platform_to_name(platform) \o ".zip"

----------------------------------------------------------------------------
(* The text substitutions of step 2.  A line is a sequence of tokens: the  *)
(* pieces of text the substitution patterns tell apart.  A pattern is a    *)
(* sequence of tokens to be matched literally, ANY for ".*" and SEMVER for *)
(* "[0-9]\+\.[0-9]\+\.[0-9]\+".                                            *)

ANY == "<.*>"

SEMVER == "<[0-9]+.[0-9]+.[0-9]+>"

\* a version text found in the files before the release
OldVersion == "0.9.0"

IsSemverToken(t) == t = OldVersion \/ (_validate_version(args.version) /\ t = StrOf(args.version))

\* the positions just after a match of pat that starts at position i of line
RECURSIVE Ends(_, _, _)
Ends(pat, line, i) ==
    IF pat = <<>> THEN {i}
    ELSE IF pat[1] = ANY
         THEN UNION { Ends(Tail(pat), line, k) : k \in i..(Len(line) + 1) }
         ELSE IF i <= Len(line)
                 /\ (IF pat[1] = SEMVER THEN IsSemverToken(line[i]) ELSE line[i] = pat[1])
              THEN Ends(Tail(pat), line, i + 1)
              ELSE {}

Min(S) == CHOOSE x \in S : \A y \in S : x <= y

Max(S) == CHOOSE x \in S : \A y \in S : x >= y

\* sed 's/pat/repl/' on one line: the leftmost match, the longest at that
\* start, replaced once; anchored: the pattern begins with ^
sed_s(c, line) ==
    LET starts == { i \in 1..(Len(line) + 1) :
                       Ends(c.pat, line, i) # {} /\ (c.anchored => i = 1) }
    IN  IF starts = {} THEN line
        ELSE LET i == Min(starts)
                 j == Max(Ends(c.pat, line, i))
             IN  SubSeq(line, 1, i - 1) \o c.repl \o SubSeq(line, j, Len(line))

\* sed -i on a file: the substitution applied to every line
sed_i(c, content) == [n \in 1..Len(content) |-> sed_s(c, content[n])]

FileNames ==
    { "adaptive_pipeline/Cargo.toml",
      "adaptive_pipeline_domain/Cargo.toml",
      "adaptive_pipeline_bootstrap/Cargo.toml",
      "docs/src/introduction.md",
      "adaptive_pipeline/docs/src/introduction.md",
      "adaptive_pipeline/docs/src/guide.md",
      "docs/roadmap.md" }

\* what find adaptive_pipeline/docs/src -name '*.md' yields
DocsSrcMarkdown ==
    { "adaptive_pipeline/docs/src/introduction.md",
      "adaptive_pipeline/docs/src/guide.md" }

\* s/^version = ".*"/version = "V"/ written without the closing .*" of its pattern
PackageVersionPattern_open == << "version = ", "\"" >>

\* the pattern of s/^version = ".*"/version = "V"/
PackageVersionPattern == << "version = ", "\"", ANY, "\"" >>

DomainPath == " path = \"../adaptive_pipeline_domain\", version = \""

BootstrapPath == " path = \"../adaptive_pipeline_bootstrap\", version = \""

\* the eleven commands of step 2: the files rewritten and the substitution
SetVersionCommands(V, date) ==
    LET package(f) ==
            [files |-> {f}, anchored |-> TRUE, pat |-> PackageVersionPattern,
             repl |-> << "version = ", "\"", V, "\"" >>]
        dependency(key, path) ==
            [files |-> {"adaptive_pipeline/Cargo.toml"}, anchored |-> FALSE,
             pat |-> << key, ANY, path, ANY, "\" ", ANY >>,
             repl |-> << key, "{", path, V, "\" ", "}" >>]
        doc_version(f) ==
            [files |-> {f}, anchored |-> TRUE, pat |-> << "**Version:** ", ANY >>,
             repl |-> << "**Version:** ", V >>]
        doc_date(f) ==
            [files |-> {f}, anchored |-> TRUE, pat |-> << "**Date:** ", ANY >>,
             repl |-> << "**Date:** ", date >>]
    IN  << package("adaptive_pipeline/Cargo.toml"),
           dependency("adaptive-pipeline-domain = ", DomainPath),
           dependency("adaptive-pipeline-bootstrap = ", BootstrapPath),
           package("adaptive_pipeline_domain/Cargo.toml"),
           package("adaptive_pipeline_bootstrap/Cargo.toml"),
           doc_version("docs/src/introduction.md"),
           doc_date("docs/src/introduction.md"),
           doc_version("adaptive_pipeline/docs/src/introduction.md"),
           doc_date("adaptive_pipeline/docs/src/introduction.md"),
           [files |-> DocsSrcMarkdown, anchored |-> TRUE,
            pat |-> << "**Version:** ", SEMVER >>, repl |-> << "**Version:** ", V >>],
           [files |-> {"docs/roadmap.md"}, anchored |-> TRUE,
            pat |-> << "**Version**: ", SEMVER >>, repl |-> << "**Version**: ", V >>] >>

\* the files after the j-th command of step 2 ran
set_version_command(j, fs, V, date) ==
    LET c == SetVersionCommands(V, date)[j]
    IN  [f \in FileNames |-> IF f \in c.files THEN sed_i(c, fs[f]) ELSE fs[f]]

\* the files after the commands j, j+1, ... of step 2 ran
RECURSIVE set_version_from(_, _, _, _)
set_version_from(j, fs, V, date) ==
    IF j > Len(SetVersionCommands(V, date)) THEN fs
    ELSE set_version_from(j + 1, set_version_command(j, fs, V, date), V, date)

\* the days a run can take place on, as strftime("%B %d, %Y") prints them
Dates == { "November 06, 2026", "November 07, 2026" }

\* lines found in manifest and documentation files
Lines ==
    { << "version = ", "\"", OldVersion, "\"" >>,
      << "version = ", "\"", OldVersion, "\"", " # was ", "\"", "0.8", "\"" >>,
      << "rust-", "version = ", "\"", "1.70", "\"" >>,
      << "adaptive-pipeline-domain = ", "{", DomainPath, OldVersion, "\" ", "}" >>,
      << "adaptive-pipeline-bootstrap = ", "{", BootstrapPath, OldVersion, "\" ", "}" >>,
      << "**Version:** ", OldVersion >>,
      << "**Version:** ", OldVersion, "-beta" >>,
      << "**Version:** ", "draft" >>,
      << "**Date:** ", "January 01, 2025" >>,
      << "**Version**: ", OldVersion >>,
      << "some text" >> }

\* most lines of a file explored
MaxLines == 2

Contents == UNION { [1..n -> Lines] : n \in 1..MaxLines }

\* the files of a checkout before the release
CheckoutFiles ==
    [f \in FileNames |->
        << << "version = ", "\"", OldVersion, "\"" >>,
           << "adaptive-pipeline-domain = ", "{", DomainPath, OldVersion, "\" ", "}" >>,
           << "**Version:** ", OldVersion >>,
           << "**Date:** ", "January 01, 2025" >> >>]

----------------------------------------------------------------------------
(* The environment: what an executed command can do *)

\* captured standard output of a status query: nothing, a bare newline, one entry
StatusOutputs == { <<>>, <<"\n">>, <<" ", "M", " ", "f", "\n">> }

\* outcomes of subprocess.run: exit status 0, a non-zero status, or an exception
Outcomes(stdouts) ==
    { [kind |-> "exit", returncode |-> 0, stdout |-> s, stderr |-> <<>>] : s \in stdouts }
    \cup { [kind |-> "exit", returncode |-> 1, stdout |-> <<>>, stderr |-> <<"e", "r", "r">>],
           [kind |-> "exception", returncode |-> 0, stdout |-> <<>>, stderr |-> <<"e", "x", "c">>] }

\* positions in PLATFORMS of the archive commands explored both ways when they
\* exit with status 0: the archive is on disk afterwards, or it is not
UnreliableArchives == {1, 4}

\* archives left in target/ by an earlier run of the same version
InitialZips == { {}, {_get_zip_path(PLATFORMS[2]), _get_zip_path(PLATFORMS[4])} }

----------------------------------------------------------------------------
(* The command runner *)

\* the runner without its dry-run branch
_run_command_no_dry_run(o) ==
    IF o.kind = "exception"
    THEN [success |-> FALSE, output |-> o.stderr, executed |-> TRUE]
    ELSE IF o.returncode # 0
         THEN [success |-> FALSE, output |-> o.stderr, executed |-> TRUE]
         ELSE [success |-> TRUE, output |-> o.stdout, executed |-> TRUE]

\* the runner with "except Exception: pass": a failed launch falls through to
\* the success return
_run_command_swallows_exception(o) ==
    IF args.dry_run
    THEN [success |-> TRUE, output |-> <<>>, executed |-> FALSE]
    ELSE IF o.kind = "exit" /\ o.returncode # 0
         THEN [success |-> FALSE, output |-> o.stderr, executed |-> TRUE]
         ELSE [success |-> TRUE, output |-> o.stdout, executed |-> TRUE]

\* the (success, output) pair returned for outcome o; executed: the command
\* was handed to subprocess.run
_run_command(o) ==
    IF args.dry_run
    THEN [success |-> TRUE, output |-> <<>>, executed |-> FALSE]
    ELSE IF o.kind = "exception"
         THEN [success |-> FALSE, output |-> o.stderr, executed |-> TRUE]
         ELSE IF o.returncode # 0
              THEN [success |-> FALSE, output |-> o.stderr, executed |-> TRUE]
              ELSE [success |-> TRUE, output |-> o.stdout, executed |-> TRUE]

\* the trace left by one call of the runner made by step k
Record(k, desc, cargs, o, r) ==
    /\ cmds' = IF r.executed
               THEN Append(cmds, [step |-> k, desc |-> desc, args |-> cargs,
                                  outcome |-> o, ret |-> r.success, out |-> r.output])
               ELSE cmds
    /\ dry_printed' = IF r.executed
                      THEN dry_printed
                      ELSE Append(dry_printed, [step |-> k, desc |-> desc, args |-> cargs])

----------------------------------------------------------------------------
(* Initial state: the command line, before main runs *)

Versions == UNION { [1..n -> VersionChars] : n \in 0..MaxVersionLen }

Init ==
    /\ args \in [version : Versions, repopath : RepoPaths,
                 prep : BOOLEAN, build : BOOLEAN, publish : BOOLEAN,
                 all : BOOLEAN, dry_run : BOOLEAN]
    /\ pc = "parse_args"
    /\ step = 0
    /\ idx = 0
    /\ results = [k \in 1..9 |-> "none"]
    /\ phase_result = [p \in {"prep", "build", "publish"} |-> "none"]
    /\ success = FALSE
    /\ exit_code = -1
    /\ cmds = <<>>
    /\ dry_printed = <<>>
    /\ invoked = <<>>
    /\ phases = <<>>
    /\ zips \in InitialZips
    /\ missing_zips = <<>>
    /\ verified = FALSE
    /\ files = CheckoutFiles
    /\ today = "November 06, 2026"
    /\ date_str = ""
    /\ runs = <<>>

----------------------------------------------------------------------------
(* main: argument check, construction, exit *)

\* main without the "at least one action" test
main_parse_args_unchecked ==
    /\ pc = "parse_args"
    /\ pc' = "init"
    /\ UNCHANGED <<args, step, idx, results, phase_result, success, exit_code, cmds,
                   dry_printed, invoked, phases, zips, missing_zips, verified,
                   files, today, date_str, runs>>

\* parser.error exits with status 2 when no action flag is given
main_parse_args ==
    /\ pc = "parse_args"
    /\ IF ~(args.prep \/ args.build \/ args.publish \/ args.all)
       THEN pc' = "done" /\ exit_code' = 2
       ELSE pc' = "init" /\ UNCHANGED exit_code
    /\ UNCHANGED <<args, step, idx, results, phase_result, success, cmds,
                   dry_printed, invoked, phases, zips, missing_zips, verified,
                   files, today, date_str, runs>>

\* ReleaseAutomation.__init__: both validations, each exits with status 1
__init__ ==
    /\ pc = "init"
    /\ IF ~_validate_version(args.version)
       THEN pc' = "done" /\ exit_code' = 1
       ELSE IF ~_validate_repo_path(args.repopath)
            THEN pc' = "done" /\ exit_code' = 1
            ELSE pc' = "dispatch" /\ UNCHANGED exit_code
    /\ UNCHANGED <<args, step, idx, results, phase_result, success, cmds,
                   dry_printed, invoked, phases, zips, missing_zips, verified,
                   files, today, date_str, runs>>

\* success = True, then the branch on args.all
main_start ==
    /\ pc = "dispatch"
    /\ success' = TRUE
    /\ pc' = "prep"
    /\ UNCHANGED <<args, step, idx, results, phase_result, exit_code, cmds,
                   dry_printed, invoked, phases, zips, missing_zips, verified,
                   files, today, date_str, runs>>

\* the "if args.publish" block placed before the "if args.build" block
NextPhase_publish_before_build(p) ==
    CASE p = "prep" -> "publish" [] p = "publish" -> "build" [] p = "build" -> "exit"

NextPhase(p) ==
    CASE p = "prep" -> "build" [] p = "build" -> "publish" [] p = "publish" -> "exit"

\* run_all without "return False": a failed phase is followed by the next one
run_all_no_halt ==
    /\ args.all
    /\ pc \in {"prep", "build", "publish"}
    /\ phase_result[pc] # "none"
    /\ IF pc = "publish"
       THEN success' = (phase_result[pc] = "ok") /\ pc' = "exit"
       ELSE pc' = NextPhase(pc) /\ UNCHANGED success
    /\ UNCHANGED <<args, step, idx, results, phase_result, exit_code, cmds,
                   dry_printed, invoked, phases, zips, missing_zips, verified,
                   files, today, date_str, runs>>

\* run_all: the three phases in order, returning False at the first that fails
run_all ==
    /\ args.all
    /\ pc \in {"prep", "build", "publish"}
    /\ phase_result[pc] # "none"
    /\ IF phase_result[pc] = "fail"
       THEN success' = FALSE /\ pc' = "exit"
       ELSE IF pc = "publish"
            THEN success' = TRUE /\ pc' = "exit"
            ELSE pc' = NextPhase(pc) /\ UNCHANGED success
    /\ UNCHANGED <<args, step, idx, results, phase_result, exit_code, cmds,
                   dry_printed, invoked, phases, zips, missing_zips, verified,
                   files, today, date_str, runs>>

\* main with "success = automation.<phase>()": the earlier results are dropped
main_run_last_wins ==
    /\ ~args.all
    /\ pc \in {"prep", "build", "publish"}
    /\ IF ~args[pc]
       THEN pc' = NextPhase(pc) /\ UNCHANGED success
       ELSE /\ phase_result[pc] # "none"
            /\ success' = (phase_result[pc] = "ok")
            /\ pc' = NextPhase(pc)
    /\ UNCHANGED <<args, step, idx, results, phase_result, exit_code, cmds,
                   dry_printed, invoked, phases, zips, missing_zips, verified,
                   files, today, date_str, runs>>

\* the else branch of main: one "if args.<phase>" after the other
main_run ==
    /\ ~args.all
    /\ pc \in {"prep", "build", "publish"}
    /\ IF ~args[pc]
       THEN pc' = NextPhase(pc) /\ UNCHANGED success
       ELSE /\ phase_result[pc] # "none"
            /\ success' = ((phase_result[pc] = "ok") /\ success)
            /\ pc' = NextPhase(pc)
    /\ UNCHANGED <<args, step, idx, results, phase_result, exit_code, cmds,
                   dry_printed, invoked, phases, zips, missing_zips, verified,
                   files, today, date_str, runs>>

\* sys.exit(0 if success else 1)
main_exit ==
    /\ pc = "exit"
    /\ exit_code' = IF success THEN 0 ELSE 1
    /\ pc' = "done"
    /\ UNCHANGED <<args, step, idx, results, phase_result, success, cmds,
                   dry_printed, invoked, phases, zips, missing_zips, verified,
                   files, today, date_str, runs>>

----------------------------------------------------------------------------
(* The phase functions: a loop over the steps, left at the first failure *)

\* a phase loop that calls a failed step a second time before giving up
Phase_retries_once(p, first, last) ==
    /\ args.all \/ args[p]
    /\ phase_result[p] = "none"
    /\ IF step = 0
       THEN /\ step' = first
            /\ idx' = 1
            /\ phases' = Append(phases, p)
            /\ UNCHANGED phase_result
       ELSE /\ idx = 0
            /\ UNCHANGED phases
            /\ IF results[step] = "fail"
               THEN IF Cardinality({i \in 1..Len(invoked) : invoked[i] = step}) < 2
                    THEN /\ idx' = 1
                         /\ UNCHANGED <<step, phase_result>>
                    ELSE /\ phase_result' = [phase_result EXCEPT ![p] = "fail"]
                         /\ step' = 0
                         /\ UNCHANGED idx
               ELSE IF step < last
                    THEN /\ step' = step + 1
                         /\ idx' = 1
                         /\ UNCHANGED phase_result
                    ELSE /\ phase_result' = [phase_result EXCEPT ![p] = "ok"]
                         /\ step' = 0
                         /\ UNCHANGED idx
    /\ UNCHANGED <<args, pc, results, success, exit_code, cmds, dry_printed,
                   invoked, zips, missing_zips, verified,
                   files, today, date_str, runs>>

Phase(p, first, last) ==
    /\ args.all \/ args[p]
    /\ phase_result[p] = "none"
    /\ IF step = 0
       THEN /\ step' = first
            /\ idx' = 1
            /\ phases' = Append(phases, p)
            /\ UNCHANGED phase_result
       ELSE /\ idx = 0
            /\ UNCHANGED phases
            /\ IF results[step] = "fail"
               THEN /\ phase_result' = [phase_result EXCEPT ![p] = "fail"]
                    /\ step' = 0
                    /\ UNCHANGED idx
               ELSE IF step < last
                    THEN /\ step' = step + 1
                         /\ idx' = 1
                         /\ UNCHANGED phase_result
                    ELSE /\ phase_result' = [phase_result EXCEPT ![p] = "ok"]
                         /\ step' = 0
                         /\ UNCHANGED idx
    /\ UNCHANGED <<args, pc, results, success, exit_code, cmds, dry_printed,
                   invoked, zips, missing_zips, verified,
                   files, today, date_str, runs>>

prep_release ==
    /\ pc = "prep"
    /\ Phase("prep", 1, 6)

build_release ==
    /\ pc = "build"
    /\ Phase("build", 7, 8)

publish_release ==
    /\ pc = "publish"
    /\ Phase("publish", 9, 9)

----------------------------------------------------------------------------
(* The step functions.  Each firing of a step action is the step's next    *)
(* call of the runner, with what the step does with the returned pair.     *)

\* the step function returns ok
Return(k, ok) ==
    /\ results' = [results EXCEPT ![k] = IF ok THEN "ok" ELSE "fail"]
    /\ idx' = 0

\* the step function is entered at its first call of the runner
Enter(k) == invoked' = IF idx = 1 THEN Append(invoked, k) ELSE invoked

\* a step that runs the commands of a list in order and returns False at the
\* first whose success flag is false
RunList(k, descs, cargs) ==
    /\ idx \in 1..Len(descs)
    /\ Enter(k)
    /\ \E o \in Outcomes({<<>>}) :
          LET r == _run_command(o)
          IN  /\ Record(k, descs[idx], cargs, o, r)
              /\ IF ~r.success
                 THEN Return(k, FALSE)
                 ELSE IF idx = Len(descs)
                      THEN Return(k, TRUE)
                      ELSE idx' = idx + 1 /\ UNCHANGED results
    /\ UNCHANGED <<args, pc, step, phase_result, success, exit_code, phases,
                   zips, missing_zips, verified,
                   files, today, date_str, runs>>

Step1Commands ==
    << "Install/update cross compiler",
       "Verify cross installation",
       "Unset CROSS_NO_DOCKER",
       "Set container engine to Docker" >>

step_1_prepare_environment ==
    /\ step = 1
    /\ RunList(1, Step1Commands, <<>>)

Step2Commands ==
    << "Update adaptive_pipeline/Cargo.toml package version",
       "Update adaptive_pipeline/Cargo.toml domain dependency",
       "Update adaptive_pipeline/Cargo.toml bootstrap dependency",
       "Update adaptive_pipeline_domain/Cargo.toml",
       "Update adaptive_pipeline_bootstrap/Cargo.toml",
       "Update docs/src/introduction.md",
       "Update docs/src/introduction.md",
       "Update adaptive_pipeline/docs/src/introduction.md",
       "Update adaptive_pipeline/docs/src/introduction.md",
       "Update all adaptive_pipeline/docs/src/**/*.md files",
       "Update docs/roadmap.md" >>

\* date_str is read once, on entry; each command that ran with exit status 0
\* has rewritten its files
step_2_set_version ==
    /\ step = 2
    /\ idx \in 1..Len(Step2Commands)
    /\ Enter(2)
    /\ \E o \in Outcomes({<<>>}) :
          LET r == _run_command(o)
              date == IF idx = 1 THEN today ELSE date_str
              after == IF r.executed /\ r.success
                       THEN set_version_command(idx, files, StrOf(args.version), date)
                       ELSE files
          IN  /\ Record(2, Step2Commands[idx], <<>>, o, r)
              /\ date_str' = date
              /\ files' = after
              /\ IF ~r.success
                 THEN Return(2, FALSE) /\ UNCHANGED runs
                 ELSE IF idx = Len(Step2Commands)
                      THEN /\ Return(2, TRUE)
                           /\ runs' = Append(runs, [date |-> date, files |-> after])
                      ELSE idx' = idx + 1 /\ UNCHANGED <<results, runs>>
    /\ UNCHANGED <<args, pc, step, phase_result, success, exit_code, phases,
                   zips, missing_zips, verified, today>>

\* a commit step: the status query, then the stage/commit/push command unless
\* the stripped output of the query is empty
CommitStep(k, query, commit) ==
    /\ idx \in {1, 2}
    /\ Enter(k)
    /\ IF idx = 1
       THEN \E o \in Outcomes(StatusOutputs) :
               LET r == _run_command(o)
               IN  /\ Record(k, query, <<>>, o, r)
                   /\ IF ~r.success
                      THEN Return(k, FALSE)
                      ELSE IF strip(r.output) = <<>>
                           THEN Return(k, TRUE)
                           ELSE idx' = 2 /\ UNCHANGED results
       ELSE \E o \in Outcomes({<<>>}) :
               LET r == _run_command(o)
               IN  /\ Record(k, commit, <<>>, o, r)
                   /\ Return(k, r.success)
    /\ UNCHANGED <<args, pc, step, phase_result, success, exit_code, phases,
                   zips, missing_zips, verified,
                   files, today, date_str, runs>>

step_3_commit_changes ==
    /\ step = 3
    /\ CommitStep(3, "Check for uncommitted changes", "Commit and push version changes")

\* step 4 with the commented-out call of the changelog generator restored
step_4_with_git_cliff ==
    /\ step = 4
    /\ RunList(4, << "Generate changelog with git-cliff" >>, <<>>)

\* the changelog generator is disabled: no command, always True
step_4_update_changelog ==
    /\ step = 4
    /\ idx = 1
    /\ Enter(4)
    /\ Return(4, TRUE)
    /\ UNCHANGED <<args, pc, step, phase_result, success, exit_code, phases,
                   cmds, dry_printed, zips, missing_zips, verified,
                   files, today, date_str, runs>>

step_5_commit_changelog ==
    /\ step = 5
    /\ CommitStep(5, "Check for CHANGELOG.md changes", "Commit and push CHANGELOG.md")

step_6_create_tag ==
    /\ step = 6
    /\ RunList(6, << "Create and push tag v" \o StrOf(args.version) >>, <<>>)

step_7_build_multiplatform ==
    /\ step = 7
    /\ RunList(7, << "Build all platform binaries" >>, <<>>)

\* the verification loop testing the renamed binary instead of the archive
find_missing_binaries(on_disk) ==
    SelectSeq([i \in 1..Len(PLATFORMS) |-> _get_binary_path(PLATFORMS[i])],
              LAMBDA z : z \notin on_disk)

\* the verification loop left after its first iteration
find_missing_first_only(on_disk) ==
    SelectSeq(<< _get_zip_path(PLATFORMS[1]) >>, LAMBDA z : z \notin on_disk)

\* the verification loop: the archive paths, in platform order, that do not exist
find_missing_zips(on_disk) ==
    SelectSeq([i \in 1..Len(PLATFORMS) |-> _get_zip_path(PLATFORMS[i])],
              LAMBDA z : z \notin on_disk)

\* source_binary.parent: the directory the archive command changes to
source_binary_parent(platform) ==
    args.repopath \o "/target/" \o platform \o "/release"

\* the file "zip <zip_name>" writes in that directory
archive_written(platform) ==
    source_binary_parent(platform) \o "/" \o zip_name(platform)

\* step 8 without the test of the success flag of the archive command
step_8_ignores_failure ==
    /\ step = 8
    /\ idx \in 1..(Len(PLATFORMS) + 1)
    /\ Enter(8)
    /\ IF idx <= Len(PLATFORMS)
       THEN \E o \in Outcomes({<<>>}),
               created \in (IF idx \in UnreliableArchives THEN BOOLEAN ELSE {TRUE}) :
               LET r == _run_command(o)
                   platform == PLATFORMS[idx]
               IN  /\ Record(8, "Create " \o zip_name(platform),
                             <<archive_written(platform)>>, o, r)
                   /\ zips' = IF r.executed /\ r.success /\ created
                              THEN zips \cup {archive_written(platform)}
                              ELSE zips
                   /\ UNCHANGED <<missing_zips, verified>>
                   /\ IF idx < Len(PLATFORMS) \/ ~args.dry_run
                      THEN idx' = idx + 1 /\ UNCHANGED results
                      ELSE Return(8, TRUE)
       ELSE LET missing == find_missing_zips(zips)
            IN  /\ missing_zips' = missing
                /\ verified' = TRUE
                /\ Return(8, missing = <<>>)
                /\ UNCHANGED <<cmds, dry_printed, zips>>
    /\ UNCHANGED <<args, pc, step, phase_result, success, exit_code, phases,
                   files, today, date_str, runs>>

\* one archive command per platform, then (outside dry-run) the existence
\* check of every archive
step_8_compress_binaries ==
    /\ step = 8
    /\ idx \in 1..(Len(PLATFORMS) + 1)
    /\ Enter(8)
    /\ IF idx <= Len(PLATFORMS)
       THEN \E o \in Outcomes({<<>>}),
               created \in (IF idx \in UnreliableArchives THEN BOOLEAN ELSE {TRUE}) :
               LET r == _run_command(o)
                   platform == PLATFORMS[idx]
               IN  /\ Record(8, "Create " \o zip_name(platform),
                             <<archive_written(platform)>>, o, r)
                   /\ zips' = IF r.executed /\ r.success /\ created
                              THEN zips \cup {archive_written(platform)}
                              ELSE zips
                   /\ UNCHANGED <<missing_zips, verified>>
                   /\ IF ~r.success
                      THEN Return(8, FALSE)
                      ELSE IF idx < Len(PLATFORMS) \/ ~args.dry_run
                           THEN idx' = idx + 1 /\ UNCHANGED results
                           ELSE Return(8, TRUE)
       ELSE LET missing == find_missing_zips(zips)
            IN  /\ missing_zips' = missing
                /\ verified' = TRUE
                /\ Return(8, missing = <<>>)
                /\ UNCHANGED <<cmds, dry_printed, zips>>
    /\ UNCHANGED <<args, pc, step, phase_result, success, exit_code, phases,
                   files, today, date_str, runs>>

step_9_publish_github ==
    /\ step = 9
    /\ RunList(9, << "Publish GitHub release v" \o StrOf(args.version) >>,
               [i \in 1..Len(PLATFORMS) |-> _get_zip_path(PLATFORMS[i])])

----------------------------------------------------------------------------

Next ==
    \/ main_parse_args
    \/ __init__
    \/ main_start
    \/ run_all
    \/ main_run
    \/ main_exit
    \/ prep_release
    \/ build_release
    \/ publish_release
    \/ step_1_prepare_environment
    \/ step_2_set_version
    \/ step_3_commit_changes
    \/ step_4_update_changelog
    \/ step_5_commit_changelog
    \/ step_6_create_tag
    \/ step_7_build_multiplatform
    \/ step_8_compress_binaries
    \/ step_9_publish_github

Spec == Init /\ [][Next]_vars

----------------------------------------------------------------------------
(* Step 2 applied again to the files it left: two releases of the same     *)
(* version from the same checkout, each step 2 running to its end, for     *)
(* every content of the files and with the day possibly changing between.  *)

InitSetVersion ==
    /\ args \in { a \in [version : Versions, repopath : {"/repo"},
                         prep : {TRUE}, build : {FALSE}, publish : {FALSE},
                         all : {FALSE}, dry_run : {FALSE}] :
                    _validate_version(a.version) }
    /\ pc = "parse_args"
    /\ step = 0
    /\ idx = 0
    /\ results = [k \in 1..9 |-> "none"]
    /\ phase_result = [p \in {"prep", "build", "publish"} |-> "none"]
    /\ success = FALSE
    /\ exit_code = -1
    /\ cmds = <<>>
    /\ dry_printed = <<>>
    /\ invoked = <<>>
    /\ phases = <<>>
    /\ zips = {}
    /\ missing_zips = <<>>
    /\ verified = FALSE
    /\ files \in { [f \in FileNames |-> c] : c \in Contents }
    /\ today \in Dates
    /\ date_str = ""
    /\ runs = <<>>

\* a run of step 2 in which every command exits with status 0
set_version_run ==
    /\ Len(runs) < 2
    /\ LET after == set_version_from(1, files, StrOf(args.version), today)
       IN  /\ files' = after
           /\ runs' = Append(runs, [date |-> today, files |-> after])
    /\ date_str' = today
    /\ UNCHANGED <<args, pc, step, idx, results, phase_result, success, exit_code,
                   cmds, dry_printed, invoked, phases, zips, missing_zips, verified,
                   today>>

\* midnight passes
next_day ==
    /\ today = "November 06, 2026"
    /\ today' = "November 07, 2026"
    /\ UNCHANGED <<args, pc, step, idx, results, phase_result, success, exit_code,
                   cmds, dry_printed, invoked, phases, zips, missing_zips, verified,
                   files, date_str, runs>>

NextSetVersion ==
    \/ set_version_run
    \/ next_day

SpecSetVersion == InitSetVersion /\ [][NextSetVersion]_vars

TypeOK ==
    /\ pc \in {"parse_args", "init", "dispatch", "prep", "build", "publish", "exit", "done"}
    /\ step \in 0..9
    /\ exit_code \in {-1, 0, 1, 2}

----------------------------------------------------------------------------
(* Vocabulary of the properties *)

PhaseNames == {"prep", "build", "publish"}

StepsOfPhase(p) ==
    CASE p = "prep" -> 1..6 [] p = "build" -> 7..8 [] p = "publish" -> {9}

PhaseOfStep(k) == IF k <= 6 THEN "prep" ELSE IF k <= 8 THEN "build" ELSE "publish"

PhaseBefore(p, q) ==
    \/ p = "prep" /\ q \in {"build", "publish"}
    \/ p = "build" /\ q = "publish"

Terminated == pc = "done"

\* a version of exactly three non-empty segments of digits, stated on the
\* characters: two separators, none first, last or doubled, digits elsewhere
WellFormedVersion(v) ==
    /\ Cardinality({i \in 1..Len(v) : v[i] = "."}) = 2
    /\ Len(v) > 0
    /\ v[1] # "."
    /\ v[Len(v)] # "."
    /\ \A i \in 1..(Len(v) - 1) : ~(v[i] = "." /\ v[i+1] = ".")
    /\ \A i \in 1..Len(v) : v[i] = "." \/ v[i] \in {"0","1","2","3","4","5","6","7","8","9"}

RepoIsGitTree == args.repopath \in ExistingPaths /\ args.repopath \in GitPaths

AnyAction == args.prep \/ args.build \/ args.publish \/ args.all

\* the run got past argument parsing and construction
ValidationPassed == pc \in {"dispatch", "prep", "build", "publish", "exit"}
                    \/ (pc = "done" /\ exit_code \in {0, 1} /\ phases # <<>>)

----------------------------------------------------------------------------
(* C1: a step that reports failure is the last step of its phase to be     *)
(* invoked, and under --all it is the last step of the run: no step of the *)
(* same phase, and with --all no step at all, is invoked after it.         *)
C1_HaltOnStepFailure ==
    \A i \in 1..Len(invoked) :
        results[invoked[i]] = "fail" =>
            \A j \in (i+1)..Len(invoked) :
                /\ PhaseOfStep(invoked[j]) # PhaseOfStep(invoked[i])
                /\ ~args.all

\* a full run under --all stopped by the failure of the first commit step
C1_Witness ==
    /\ Terminated
    /\ args.all
    /\ results[3] = "fail"
    /\ invoked = <<1, 2, 3>>
    /\ phases = <<"prep">>

(* C2: in dry-run mode no command is ever handed to subprocess.run, no     *)
(* step and no phase reports failure, and once the run is over every       *)
(* selected phase has reported success.                                    *)
C2_DryRunExecutesNothing ==
    args.dry_run =>
        /\ cmds = <<>>
        /\ \A k \in 1..9 : results[k] # "fail"
        /\ \A p \in PhaseNames : phase_result[p] # "fail"
        /\ (Terminated /\ ValidationPassed) =>
               \A p \in PhaseNames : (args.all \/ args[p]) => phase_result[p] = "ok"

\* a dry run of build and publish that printed its descriptions and ended
C2_Witness ==
    /\ args.dry_run
    /\ ~args.all /\ ~args.prep /\ args.build /\ args.publish
    /\ Terminated
    /\ invoked = <<7, 8, 9>>
    /\ Len(dry_printed) = 2 + Len(PLATFORMS)

(* C3: whatever flags select the phases, a phase that reported failure is  *)
(* followed by no command of a later phase.                                *)
C3_HaltAcrossSelectedPhases ==
    \A p \in PhaseNames :
        phase_result[p] = "fail" =>
            \A i \in 1..Len(cmds) : ~PhaseBefore(p, PhaseOfStep(cmds[i].step))

(* C4: once validation has passed the exit code is 0 exactly when every    *)
(* phase that ran reported success, and 1 when some phase reported failure *)
C4_ExitCode ==
    (Terminated /\ ValidationPassed) =>
        /\ exit_code \in {0, 1}
        /\ (exit_code = 0) <=> (\A p \in Range(phases) : phase_result[p] = "ok")
        /\ (\E p \in Range(phases) : phase_result[p] = "fail") => exit_code = 1

\* individual flags: prep failed, build succeeded afterwards, exit code 1
C4_Witness ==
    /\ Terminated
    /\ ~args.all
    /\ phases = <<"prep", "build">>
    /\ phase_result["prep"] = "fail"
    /\ phase_result["build"] = "ok"
    /\ exit_code = 1

(* C5: a version that is not three non-empty dot-separated segments of    *)
(* digits ends the run in construction with a non-zero exit code; no step  *)
(* is invoked and no command is executed or printed, dry-run included.     *)
C5_MalformedVersionExits ==
    ~WellFormedVersion(args.version) =>
        /\ cmds = <<>> /\ dry_printed = <<>> /\ invoked = <<>> /\ phases = <<>>
        /\ pc \notin {"parse_args", "init"} => (Terminated /\ exit_code \notin {-1, 0})
        /\ (Terminated /\ AnyAction) => exit_code = 1

\* a dry run of --all on a version with an empty middle segment, rejected
C5_Witness ==
    /\ Terminated
    /\ exit_code = 1
    /\ args.dry_run /\ args.all
    /\ args.repopath = "/repo"
    /\ args.version = <<"1", ".", ".", "1">>

(* C6: a repository path that does not exist or has no .git entry ends the *)
(* run in construction with a non-zero exit code before any command; a     *)
(* step is invoked only after the version check and the path check passed. *)
C6_InvalidRepoPathExits ==
    /\ ~RepoIsGitTree =>
          /\ cmds = <<>> /\ dry_printed = <<>> /\ invoked = <<>> /\ phases = <<>>
          /\ pc \notin {"parse_args", "init"} => (Terminated /\ exit_code \notin {-1, 0})
    /\ invoked # <<>> => (WellFormedVersion(args.version) /\ RepoIsGitTree)

\* a well-formed version with an existing directory that is no git tree
C6_Witness ==
    /\ Terminated
    /\ exit_code = 1
    /\ AnyAction
    /\ WellFormedVersion(args.version)
    /\ args.repopath = "/plain"

(* C7: outside dry-run the runner's success flag is true exactly for a     *)
(* command that ran and exited with status 0 (false for a non-zero status  *)
(* and for an exception of the launch), and a step that received a false   *)
(* flag has reported failure.                                              *)
C7_RunnerFlag ==
    \A i \in 1..Len(cmds) :
        /\ cmds[i].ret <=> (cmds[i].outcome.kind = "exit" /\ cmds[i].outcome.returncode = 0)
        /\ ~cmds[i].ret => results[cmds[i].step] = "fail"

\* the tag command could not be launched: step 6 failed
C7_Witness ==
    /\ cmds # <<>>
    /\ cmds[Len(cmds)].step = 6
    /\ cmds[Len(cmds)].outcome.kind = "exception"
    /\ results[6] = "fail"

CommandsOfStep(k) == SelectSeq(cmds, LAMBDA e : e.step = k)

PrintedOfStep(k) == SelectSeq(dry_printed, LAMBDA e : e.step = k)

QueryOf(k) == IF k = 3 THEN "Check for uncommitted changes"
                       ELSE "Check for CHANGELOG.md changes"

CommitOf(k) == IF k = 3 THEN "Commit and push version changes"
                        ELSE "Commit and push CHANGELOG.md"

\* a status output that lists no entry: nothing but whitespace
NoPendingChanges(out) == \A i \in 1..Len(out) : out[i] \in {" ", "\n", "\t"}

(* C8: a commit step that has returned ran its status query first; a       *)
(* failed query fails the step without the commit command; a query that    *)
(* reports no pending changes gives success without the commit command; a  *)
(* query that reports changes is followed by the commit command, whose     *)
(* result is the step's result.  In dry-run only the query is printed.     *)
C8_CommitSteps ==
    \A k \in {3, 5} :
        results[k] # "none" =>
            IF args.dry_run
            THEN /\ Len(PrintedOfStep(k)) = 1
                 /\ PrintedOfStep(k)[1].desc = QueryOf(k)
                 /\ results[k] = "ok"
            ELSE LET es == CommandsOfStep(k)
                 IN  /\ Len(es) >= 1
                     /\ es[1].desc = QueryOf(k)
                     /\ ~es[1].ret => (Len(es) = 1 /\ results[k] = "fail")
                     /\ (es[1].ret /\ NoPendingChanges(es[1].outcome.stdout))
                           => (Len(es) = 1 /\ results[k] = "ok")
                     /\ (es[1].ret /\ ~NoPendingChanges(es[1].outcome.stdout))
                           => /\ Len(es) = 2
                              /\ es[2].desc = CommitOf(k)
                              /\ results[k] = (IF es[2].ret THEN "ok" ELSE "fail")

\* step 3 skipped on a status output of one newline, step 5 committed and failed
C8_Witness ==
    /\ results[3] = "ok"
    /\ Len(CommandsOfStep(3)) = 1
    /\ CommandsOfStep(3)[1].outcome.stdout = <<"\n">>
    /\ results[5] = "fail"
    /\ Len(CommandsOfStep(5)) = 2
    /\ ~CommandsOfStep(5)[2].ret

AllZipPaths == { _get_zip_path(PLATFORMS[i]) : i \in 1..Len(PLATFORMS) }

(* C9: outside dry-run the compression step reports success only after its *)
(* check found the archive of every platform on disk; when the check finds *)
(* an archive absent the step fails and the list it prints is exactly the  *)
(* absent archive paths, each once.                                        *)
C9_CompressionVerifies ==
    ~args.dry_run =>
        /\ results[8] = "ok" => (verified /\ AllZipPaths \subseteq zips)
        /\ verified =>
              /\ Range(missing_zips) = AllZipPaths \ zips
              /\ Len(missing_zips) = Cardinality(Range(missing_zips))
              /\ missing_zips # <<>> => results[8] = "fail"
              /\ missing_zips = <<>> => results[8] = "ok"

\* every archive command exited 0 and still two archives are absent
C9_Witness ==
    /\ verified
    /\ results[8] = "fail"
    /\ Len(CommandsOfStep(8)) = Len(PLATFORMS)
    /\ Len(missing_zips) = 2

RECURSIVE Dedup(_)
Dedup(q) ==
    IF Len(q) <= 1 THEN q
    ELSE IF q[1] = q[2] THEN Dedup(Tail(q)) ELSE <<q[1]>> \o Dedup(Tail(q))

\* the steps whose command descriptions a dry run printed, in order
DryRunSteps == Dedup([i \in 1..Len(dry_printed) |-> dry_printed[i].step])

DryRunDescriptions == [i \in 1..Len(dry_printed) |-> dry_printed[i].desc]

FullDryRun == Terminated /\ ValidationPassed /\ args.dry_run /\ args.all

(* C10 as stated: a full dry run prints command descriptions of all nine   *)
(* steps, in step order, executes nothing and exits 0.                     *)
C10_NineStepsPrinted ==
    FullDryRun =>
        /\ DryRunSteps = <<1, 2, 3, 4, 5, 6, 7, 8, 9>>
        /\ cmds = <<>>
        /\ exit_code = 0

(* C10 amended: a full dry run invokes the nine steps in order, executes   *)
(* nothing, exits 0 and prints exactly these descriptions: the four of     *)
(* prepare-environment, the eleven of set-version, the status query of the *)
(* commit step, the status query of the commit-changelog step, tag, build, *)
(* one archive per platform, publish.  The changelog step prints none, and *)
(* the commit steps never print their stage/commit/push command.           *)
C10_DryRunTranscript ==
    FullDryRun =>
        /\ invoked = <<1, 2, 3, 4, 5, 6, 7, 8, 9>>
        /\ DryRunSteps = <<1, 2, 3, 5, 6, 7, 8, 9>>
        /\ DryRunDescriptions =
              Step1Commands \o Step2Commands
              \o << "Check for uncommitted changes",
                    "Check for CHANGELOG.md changes",
                    "Create and push tag v" \o StrOf(args.version),
                    "Build all platform binaries" >>
              \o [i \in 1..Len(PLATFORMS) |->
                    "Create adaptive_pipeline-v" \o StrOf(args.version) \o "-"
                        \o _platform_to_name(PLATFORMS[i]) \o ".zip"]
              \o << "Publish GitHub release v" \o StrOf(args.version) >>
        /\ cmds = <<>>
        /\ exit_code = 0

\* the end of a full dry run with its 25 printed descriptions
C10_Witness ==
    /\ FullDryRun
    /\ exit_code = 0
    /\ Len(dry_printed) = 25

(* C11: no step is retried and none is rolled back: the steps are invoked  *)
(* in strictly increasing order, so each at most once and a failed one     *)
(* never again, and every command issued after a failed command belongs to *)
(* a later step, never to a step that already completed.                   *)
C11_NoRetryNoRollback ==
    /\ \A i \in 1..Len(invoked) :
          \A j \in (i+1)..Len(invoked) : invoked[i] < invoked[j]
    /\ \A i \in 1..Len(cmds) :
          ~cmds[i].ret => \A j \in (i+1)..Len(cmds) : cmds[j].step > cmds[i].step

\* set-version failed after the environment was prepared, and the build
\* phase chosen by its own flag ran afterwards
C11_Witness ==
    /\ Terminated
    /\ results[1] = "ok"
    /\ results[2] = "fail"
    /\ invoked = <<1, 2, 7, 8>>
    /\ \E i \in 1..Len(cmds) : cmds[i].step = 8

(* C12: without any of --prep, --build, --publish, --all the run ends with *)
(* the usage error (exit status 2) before validation and before any step   *)
(* or command, with and without --dry-run.                                 *)
C12_NoActionIsUsageError ==
    ~AnyAction =>
        /\ pc \in {"parse_args", "done"}
        /\ Terminated => exit_code = 2
        /\ cmds = <<>> /\ dry_printed = <<>> /\ invoked = <<>> /\ phases = <<>>

\* the usage error of a dry run whose version would not have passed validation
C12_Witness ==
    /\ Terminated
    /\ ~AnyAction
    /\ args.dry_run
    /\ ~WellFormedVersion(args.version)
    /\ exit_code = 2

\* the display name of each platform triple, as the archive names spell it
DisplayName(triple) ==
    CASE triple = "aarch64-apple-darwin"      -> "macos-aarch64"
      [] triple = "aarch64-unknown-linux-gnu" -> "linux-aarch64"
      [] triple = "x86_64-apple-darwin"       -> "macos-x86_64"
      [] triple = "x86_64-pc-windows-gnu"     -> "windows-x86_64"
      [] triple = "x86_64-unknown-linux-gnu"  -> "linux-x86_64"

\* <repo>/target/<triple>/release/adaptive_pipeline-v<version>-<display-name>.zip
ArchivePath(triple) ==
    args.repopath \o "/target/" \o triple \o "/release/adaptive_pipeline-v"
        \o StrOf(args.version) \o "-" \o DisplayName(triple) \o ".zip"

\* no two platforms share a display name
DisplayNamesDistinct ==
    \A i, j \in 1..Len(PLATFORMS) :
        i # j => _platform_to_name(PLATFORMS[i]) # _platform_to_name(PLATFORMS[j])

PublishCalls == CommandsOfStep(9) \o PrintedOfStep(9)

ArchiveCalls == CommandsOfStep(8) \o PrintedOfStep(8)

(* C13: the publish command attaches one archive path per platform, in     *)
(* platform order, each of the stated form; the i-th archive command       *)
(* writes the i-th of these paths, the existence check looks for these     *)
(* paths only, and the five display names are pairwise distinct.           *)
C13_PublishAttachesArchives ==
    /\ LET attached == [i \in 1..Len(PLATFORMS) |-> ArchivePath(PLATFORMS[i])]
           published == PublishCalls
           archived == ArchiveCalls
       IN  /\ \A c \in 1..Len(published) : published[c].args = attached
           /\ \A i \in 1..Len(archived) : archived[i].args = << attached[i] >>
           /\ \A m \in 1..Len(missing_zips) : missing_zips[m] \in Range(attached)
           /\ results[8] = "ok" /\ ~args.dry_run => Range(attached) \subseteq zips
    /\ DisplayNamesDistinct

\* a full run that compressed, verified and published
C13_Witness ==
    /\ ~args.dry_run
    /\ verified
    /\ results[8] = "ok"
    /\ Len(SelectSeq(cmds, LAMBDA e : e.step = 8)) = Len(PLATFORMS)
    /\ Len(SelectSeq(cmds, LAMBDA e : e.step = 9)) = 1

\* the platform table in its fixed order
PlatformOrder ==
    << "aarch64-apple-darwin", "aarch64-unknown-linux-gnu", "x86_64-apple-darwin",
       "x86_64-pc-windows-gnu", "x86_64-unknown-linux-gnu" >>

(* C14: the archive commands are issued one platform at a time in the      *)
(* order of the platform table; a failed archive command is the last one   *)
(* issued, fails the step, and the existence check is not performed.       *)
C14_CompressionStopsAtFailure ==
    LET es == CommandsOfStep(8)
        archived == es \o PrintedOfStep(8)
    IN  /\ Len(archived) <= Len(PlatformOrder)
        /\ \A i \in 1..Len(archived) :
              archived[i].args = << ArchivePath(PlatformOrder[i]) >>
        /\ \A i \in 1..Len(es) :
              ~es[i].ret => /\ i = Len(es)
                            /\ results[8] = "fail"
                            /\ ~verified
                            /\ missing_zips = <<>>

\* the archive command of the third platform failed
C14_Witness ==
    /\ Terminated
    /\ Len(CommandsOfStep(8)) = 3
    /\ ~CommandsOfStep(8)[3].ret
    /\ results[8] = "fail"
    /\ ~verified

(* C16: under --all outside dry-run the publish command is issued only     *)
(* after the tag step succeeded and the compression step's check found the *)
(* archive of every platform on disk; never after a missing archive was    *)
(* reported.                                                               *)
C16_PublishAfterTagAndArchives ==
    (args.all /\ ~args.dry_run /\ CommandsOfStep(9) # <<>>) =>
        /\ results[6] = "ok"
        /\ results[8] = "ok"
        /\ verified
        /\ missing_zips = <<>>
        /\ \A i \in 1..Len(PLATFORMS) : ArchivePath(PLATFORMS[i]) \in zips

\* a full release that ended with exit code 0
C16_Witness ==
    /\ Terminated
    /\ args.all /\ ~args.dry_run
    /\ Len(CommandsOfStep(9)) = 1
    /\ CommandsOfStep(9)[1].ret
    /\ exit_code = 0

(* C17: each phase is executed at most once and in the order prep, build,  *)
(* publish; with --all, individual phase flags add no execution.           *)
C17_PhasesOnceInOrder ==
    /\ \A i \in 1..Len(phases) :
          \A j \in (i+1)..Len(phases) : PhaseBefore(phases[i], phases[j])
    /\ Len(phases) <= 3
    /\ \A p \in PhaseNames :
          Cardinality({i \in 1..Len(phases) : phases[i] = p}) <= 1
    /\ \A i \in 1..Len(invoked) :
          \A j \in (i+1)..Len(invoked) :
             PhaseOfStep(invoked[i]) # PhaseOfStep(invoked[j])
                => PhaseBefore(PhaseOfStep(invoked[i]), PhaseOfStep(invoked[j]))

\* --all given together with the three individual flags
C17_Witness ==
    /\ Terminated
    /\ args.all /\ args.prep /\ args.build /\ args.publish
    /\ phases = <<"prep", "build", "publish">>
    /\ invoked = <<1, 2, 3, 4, 5, 6, 7, 8, 9>>

\* step 2 has run to its end twice
RanTwice == Len(runs) = 2

(* C15 as stated: a second run of the set-version step with the same       *)
(* version leaves every file with the content the first run gave it.       *)
C15_SetVersionIdempotent ==
    RanTwice => runs[2].files = runs[1].files

(* C15 amended: a second run with the same version on the same calendar    *)
(* day leaves every file with the content the first run gave it; on        *)
(* another day only the Date line of the two introduction.md files differs *)
(* and carries the day of the second run.                                  *)
C15_SetVersionIdempotentSameDay ==
    RanTwice =>
        /\ runs[1].date = runs[2].date => runs[2].files = runs[1].files
        /\ \A f \in FileNames :
              /\ Len(runs[2].files[f]) = Len(runs[1].files[f])
              /\ \A n \in 1..Len(runs[1].files[f]) :
                    runs[2].files[f][n] # runs[1].files[f][n] =>
                        /\ f \in {"docs/src/introduction.md",
                                  "adaptive_pipeline/docs/src/introduction.md"}
                        /\ runs[1].files[f][n] = << "**Date:** ", runs[1].date >>
                        /\ runs[2].files[f][n] = << "**Date:** ", runs[2].date >>

\* two runs on the same day that left the new version in the package line and
\* in the dependency line of the main manifest
C15_Witness ==
    /\ RanTwice
    /\ runs[1].date = runs[2].date
    /\ files["adaptive_pipeline/Cargo.toml"]
          = << << "version = ", "\"", StrOf(args.version), "\"" >>,
               << "adaptive-pipeline-domain = ", "{", DomainPath,
                  StrOf(args.version), "\" ", "}" >> >>

====
